---- MODULE Spec2Model ----
(***************************************************************************)
(* TextInspectorTool of examples/GAIA_submission/gaia.py: the two entry    *)
(* points forward and forward_initial_exam_mode, the conversion service    *)
(* (self.md_converter.convert) and the language model client               *)
(* (websurfer_model) they call.                                            *)
(*                                                                         *)
(* A Python string is modelled as a run-length string: a sequence of runs  *)
(* [c |-> symbol, n |-> count], n > 0, adjacent runs carrying different    *)
(* symbols.  A symbol is one character; a string literal of the source     *)
(* that is only ever concatenated is kept as one symbol.  The encoding     *)
(* keeps text_limit at its value in the source.                            *)
(***************************************************************************)
EXTENDS Integers, Sequences, FiniteSets, TLC

VARIABLES pc, mode, file_path, question, result, outcome,
          convert_calls, model_calls, conv, resp

vars == <<pc, mode, file_path, question, result, outcome,
          convert_calls, model_calls, conv, resp>>

(* ------------------------------ bounds --------------------------------- *)

\* number of threads that may be inside the tool at once
NumThreads == 2
\* a file path is made of at most this many pieces of PathPieces
MaxPieces == 2
\* the longest text_content is text_limit + MaxExcess characters
MaxExcess == 30000

(* ------------------------------ strings -------------------------------- *)

Min(a, b) == IF a < b THEN a ELSE b
Max(a, b) == IF a > b THEN a ELSE b

\* c repeated n times: c * n
Rep(c, n) == IF n = 0 THEN <<>> ELSE <<[c |-> c, n |-> n]>>

\* a + b
Concat(a, b) ==
    IF a = <<>> THEN b
    ELSE IF b = <<>> THEN a
    ELSE IF a[Len(a)].c = b[1].c
         THEN SubSeq(a, 1, Len(a) - 1)
              \o <<[c |-> b[1].c, n |-> a[Len(a)].n + b[1].n]>>
              \o Tail(b)
         ELSE a \o b

\* the string made of the characters of a sequence of characters
RECURSIVE FromChars(_)
FromChars(cs) ==
    IF cs = <<>> THEN <<>>
    ELSE Concat(Rep(Head(cs), 1), FromChars(Tail(cs)))

\* a literal of the source that is only concatenated, as one symbol
Lit(x) == Rep(x, 1)

\* len(s)
RECURSIVE StrLen(_)
StrLen(s) == IF s = <<>> THEN 0 ELSE s[1].n + StrLen(Tail(s))

\* s[:k], k >= 0
RECURSIVE Take(_, _)
Take(s, k) ==
    IF k <= 0 \/ s = <<>> THEN <<>>
    ELSE IF s[1].n >= k THEN <<[c |-> s[1].c, n |-> k]>>
    ELSE <<s[1]>> \o Take(Tail(s), k - s[1].n)

\* s[k:], k >= 0
RECURSIVE Drop(_, _)
Drop(s, k) ==
    IF s = <<>> THEN <<>>
    ELSE IF k <= 0 THEN s
    ELSE IF s[1].n > k THEN <<[c |-> s[1].c, n |-> s[1].n - k]>> \o Tail(s)
    ELSE Drop(Tail(s), k - s[1].n)

\* s[-k:], k > 0
LastChars(s, k) == Drop(s, Max(0, StrLen(s) - k))

\* sub in s
Contains(sub, s) ==
    \E i \in 0..StrLen(s) : Take(Drop(s, i), StrLen(sub)) = sub

(* --------------------------- optional values --------------------------- *)

None == [some |-> FALSE, val |-> <<>>]
Some(s) == [some |-> TRUE, val |-> s]

\* str(x): the text of a string, "None" for None
str(x) == IF x.some THEN x.val ELSE FromChars(<<"N", "o", "n", "e">>)

\* bool(x) of an optional string: None and "" are falsy
Truthy(x) == x.some /\ x.val # <<>>

(* ------------------------- module-level values ------------------------- *)

USE_OPEN_MODELS == FALSE

text_limit == IF USE_OPEN_MODELS THEN 20000 ELSE 70000

SYSTEM == "system"
USER == "user"

\* the message of the exception raised for an image path
ImageError == "Cannot use inspect_file_as_text tool with images: use visualizer instead!"
\* a failure of md_converter.convert, and of websurfer_model
ConversionError == "ConversionError"
ModelCallError == "ModelCallError"

DotPng == FromChars(<<".", "p", "n", "g">>)
DotJpg == FromChars(<<".", "j", "p", "g">>)
DotZip == FromChars(<<".", "z", "i", "p">>)

(* ----------------------- the body of the two methods ------------------- *)

\* the suffix test s.endswith(suf)
EndsWith(s, suf) ==
    StrLen(s) >= StrLen(suf) /\ Drop(s, StrLen(s) - StrLen(suf)) = suf

\* an image check widened to other image extensions
IsImageBroad(fp) ==
    \E e \in { DotPng, DotJpg, FromChars(<<".", "j", "p", "e", "g">>),
               FromChars(<<".", "g", "i", "f">>) } : EndsWith(fp, e)

\* file_path[-4:] in ['.png', '.jpg']
IsImage(fp) == LastChars(fp, 4) \in {DotPng, DotJpg}

\* an archive check on the extension instead of the whole path
IsArchiveSuffix(fp) == EndsWith(fp, DotZip)

\* ".zip" in file_path
IsArchive(fp) == Contains(DotZip, fp)

\* a question check that lets the empty string through: question is None
NoQuestionNoneOnly(q) == ~q.some

\* not question
NoQuestion(q) == ~Truthy(q)

\* a truncation that keeps the end of the text: text_content[-text_limit:]
TruncateSuffix(text) == LastChars(text, text_limit)

\* result.text_content[:text_limit]
Truncate(text) == Take(text, text_limit)

\* "<header>" + str(result.title) + "\n\n" + result.text_content[:text_limit]
FileContent(header, res) ==
    Concat(Concat(Concat(Lit(header), str(res.title)), Lit("\n\n")),
           Truncate(res.text_content))

\* what the code after the conversion call does: raise, return a string, or
\* hand a list of messages to the model
Raise(e) == [kind |-> "raise", err |-> e, text |-> <<>>, messages |-> <<>>]
Return(s) == [kind |-> "return", err |-> "", text |-> s, messages |-> <<>>]
CallModel(ms) == [kind |-> "model", err |-> "", text |-> <<>>, messages |-> ms]

ExamMessages(q, res) ==
    << [role |-> SYSTEM, content |-> FileContent("Here is a file:\n### ", res)],
       [role |-> USER, content |-> q.val] >>

\* the standard prompt without its third message
ForwardMessagesNoHeadings(q, res) ==
    << [role |-> SYSTEM,
        content |-> Concat(Lit("You will have to write a short caption for this file, then answer this question:"), q.val)],
       [role |-> USER, content |-> FileContent("Here is the complete file:\n### ", res)] >>

ForwardMessages(q, res) ==
    << [role |-> SYSTEM,
        content |-> Concat(Lit("You will have to write a short caption for this file, then answer this question:"), q.val)],
       [role |-> USER, content |-> FileContent("Here is the complete file:\n### ", res)],
       [role |-> USER,
        content |-> Concat(Lit("Now answer the question below. Use these three headings: '1. Short answer', '2. Extremely detailed answer', '3. Additional Context on the document and question asked'."), q.val)] >>

\* an initial-exam body that lost its archive check
ExamWithoutArchiveCheck(fp, q, res) ==
    IF IsImage(fp) THEN Raise(ImageError)
    ELSE IF NoQuestion(q) THEN Return(res.text_content)
    ELSE CallModel(ExamMessages(q, res))

\* forward_initial_exam_mode after result = self.md_converter.convert(file_path)
forward_initial_exam_mode(fp, q, res) ==
    IF IsImage(fp) THEN Raise(ImageError)
    ELSE IF IsArchive(fp) THEN Return(res.text_content)
    ELSE IF NoQuestion(q) THEN Return(res.text_content)
    ELSE CallModel(ExamMessages(q, res))

\* forward after result = self.md_converter.convert(file_path)
forward(fp, q, res) ==
    IF IsImage(fp) THEN Raise(ImageError)
    ELSE IF IsArchive(fp) THEN Return(res.text_content)
    ELSE IF NoQuestion(q) THEN Return(res.text_content)
    ELSE CallModel(ForwardMessages(q, res))

Body(m, fp, q, res) ==
    IF m = "forward" THEN forward(fp, q, res)
    ELSE forward_initial_exam_mode(fp, q, res)

(* ------------------------------- inputs -------------------------------- *)

Threads == 1..NumThreads
MainThread == 1

PathPieces ==
    { FromChars(<<"a">>), DotPng, DotJpg, DotZip,
      FromChars(<<".", "j", "p", "e", "g">>), FromChars(<<".", "g", "i", "f">>),
      FromChars(<<".", "p", "d", "f">>) }

RECURSIVE PathsOf(_)
PathsOf(k) ==
    IF k = 1 THEN PathPieces
    ELSE LET shorter == PathsOf(k - 1)
         IN  shorter \cup { Concat(p, e) : p \in shorter, e \in PathPieces }

FilePaths == PathsOf(MaxPieces)

Questions == { None, Some(<<>>), Some(FromChars(<<"Q", "?">>)) }

\* "", texts shorter than, as long as and longer than text_limit, and texts
\* whose character changes just before and exactly at text_limit
Texts ==
    { <<>>, Rep("A", 1), Rep("A", text_limit), Rep("A", text_limit + MaxExcess),
      Concat(Rep("A", text_limit - 1), Rep("B", 2)),
      Concat(Rep("A", text_limit), Rep("B", MaxExcess)) }

Titles == { None, Some(FromChars(<<"T">>)) }

\* what md_converter.convert may return
Results == [title : Titles, text_content : Texts]

\* what websurfer_model may return
Answers == { <<>>, FromChars(<<"o", "k">>) }

(* ------------------------------- state --------------------------------- *)

NoResult == [title |-> None, text_content |-> <<>>]
Pending == [kind |-> "pending", err |-> "", text |-> <<>>]
NotYet == [status |-> "none", val |-> NoResult]
NoAnswer == [status |-> "none", val |-> <<>>]

Init ==
    /\ pc = [t \in Threads |-> "idle"]
    /\ mode = [t \in Threads |-> "forward"]
    /\ file_path = [t \in Threads |-> <<>>]
    /\ question = [t \in Threads |-> None]
    /\ result = [t \in Threads |-> NoResult]
    /\ outcome = [t \in Threads |-> Pending]
    /\ convert_calls = [t \in Threads |-> <<>>]
    /\ model_calls = [t \in Threads |-> <<>>]
    /\ conv = [t \in Threads |-> NotYet]
    /\ resp = [t \in Threads |-> NoAnswer]

(* ------------------------------ actions -------------------------------- *)

\* an entry that rejects an image path before it converts anything
EnterImageFirst(t, m, fp, q) ==
    /\ pc[t] = "idle"
    /\ mode' = [mode EXCEPT ![t] = m]
    /\ file_path' = [file_path EXCEPT ![t] = fp]
    /\ question' = [question EXCEPT ![t] = q]
    /\ IF IsImage(fp)
       THEN /\ pc' = [pc EXCEPT ![t] = "done"]
            /\ outcome' = [outcome EXCEPT ![t] =
                              [kind |-> "raise", err |-> ImageError, text |-> <<>>]]
            /\ UNCHANGED convert_calls
       ELSE /\ pc' = [pc EXCEPT ![t] = "convert"]
            /\ convert_calls' = [convert_calls EXCEPT ![t] = Append(@, fp)]
            /\ UNCHANGED outcome
    /\ UNCHANGED <<result, model_calls, conv, resp>>

\* the caller enters method m; its first statement hands file_path to
\* self.md_converter.convert and blocks on it
Enter(t, m, fp, q) ==
    /\ pc[t] = "idle"
    /\ pc' = [pc EXCEPT ![t] = "convert"]
    /\ mode' = [mode EXCEPT ![t] = m]
    /\ file_path' = [file_path EXCEPT ![t] = fp]
    /\ question' = [question EXCEPT ![t] = q]
    /\ convert_calls' = [convert_calls EXCEPT ![t] = Append(@, fp)]
    /\ UNCHANGED <<result, outcome, model_calls, conv, resp>>

\* a call of forward with a path of paths and a question of questions
CallForward(t, paths, questions) ==
    /\ pc[t] = "idle"
    /\ \E fp \in paths, q \in questions : Enter(t, "forward", fp, q)

\* a call of forward_initial_exam_mode
CallForwardInitialExamMode(t, paths, questions) ==
    /\ pc[t] = "idle"
    /\ \E fp \in paths, q \in questions : Enter(t, "forward_initial_exam_mode", fp, q)

\* a result kept where every call sees it (an attribute of the shared tool)
StoreResultShared(t, r) == [u \in Threads |-> r]

\* result = <what convert returned>: result is a local of the call
StoreResult(t, r) == [result EXCEPT ![t] = r]

\* md_converter.convert returns one of results
ConvertReturns(t, results) ==
    /\ pc[t] = "convert"
    /\ \E r \in results :
          /\ conv' = [conv EXCEPT ![t] = [status |-> "ok", val |-> r]]
          /\ result' = StoreResult(t, r)
    /\ pc' = [pc EXCEPT ![t] = "dispatch"]
    /\ UNCHANGED <<mode, file_path, question, outcome, convert_calls, model_calls, resp>>

\* md_converter.convert raises: nothing catches it, the call ends with it
ConvertRaises(t) ==
    /\ pc[t] = "convert"
    /\ conv' = [conv EXCEPT ![t] = [status |-> "error", val |-> NoResult]]
    /\ outcome' = [outcome EXCEPT ![t] =
                      [kind |-> "raise", err |-> ConversionError, text |-> <<>>]]
    /\ pc' = [pc EXCEPT ![t] = "done"]
    /\ UNCHANGED <<mode, file_path, question, result, convert_calls, model_calls, resp>>

\* the image check, the archive check, the question check and the building of
\* the messages, up to the raise, the return or the call of websurfer_model
Dispatch(t) ==
    /\ pc[t] = "dispatch"
    /\ LET b == Body(mode[t], file_path[t], question[t], result[t])
       IN  IF b.kind = "model"
           THEN /\ model_calls' = [model_calls EXCEPT ![t] = Append(@, b.messages)]
                /\ pc' = [pc EXCEPT ![t] = "model"]
                /\ UNCHANGED outcome
           ELSE /\ outcome' = [outcome EXCEPT ![t] =
                                 [kind |-> b.kind, err |-> b.err, text |-> b.text]]
                /\ pc' = [pc EXCEPT ![t] = "done"]
                /\ UNCHANGED model_calls
    /\ UNCHANGED <<mode, file_path, question, result, convert_calls, conv, resp>>

\* return websurfer_model(messages): the model's string is the result
ModelReturns(t, answers) ==
    /\ pc[t] = "model"
    /\ \E s \in answers :
          /\ resp' = [resp EXCEPT ![t] = [status |-> "ok", val |-> s]]
          /\ outcome' = [outcome EXCEPT ![t] = [kind |-> "return", err |-> "", text |-> s]]
    /\ pc' = [pc EXCEPT ![t] = "done"]
    /\ UNCHANGED <<mode, file_path, question, result, convert_calls, model_calls, conv>>

\* a model failure answered by a second call with the same messages
ModelRaisesRetry(t) ==
    /\ pc[t] = "model"
    /\ Len(model_calls[t]) < 3
    /\ model_calls' = [model_calls EXCEPT ![t] = Append(@, @[1])]
    /\ UNCHANGED <<pc, mode, file_path, question, result, outcome, convert_calls, conv, resp>>

\* websurfer_model raises: nothing catches it, the call ends with it
ModelRaises(t) ==
    /\ pc[t] = "model"
    /\ resp' = [resp EXCEPT ![t] = [status |-> "error", val |-> <<>>]]
    /\ outcome' = [outcome EXCEPT ![t] =
                      [kind |-> "raise", err |-> ModelCallError, text |-> <<>>]]
    /\ pc' = [pc EXCEPT ![t] = "done"]
    /\ UNCHANGED <<mode, file_path, question, result, convert_calls, model_calls, conv>>

\* the caller has the outcome; the frame of the call is gone
Leave(t) ==
    /\ pc[t] = "done"
    /\ pc' = [pc EXCEPT ![t] = "idle"]
    /\ mode' = [mode EXCEPT ![t] = "forward"]
    /\ file_path' = [file_path EXCEPT ![t] = <<>>]
    /\ question' = [question EXCEPT ![t] = None]
    /\ result' = [result EXCEPT ![t] = NoResult]
    /\ outcome' = [outcome EXCEPT ![t] = Pending]
    /\ convert_calls' = [convert_calls EXCEPT ![t] = <<>>]
    /\ model_calls' = [model_calls EXCEPT ![t] = <<>>]
    /\ conv' = [conv EXCEPT ![t] = NotYet]
    /\ resp' = [resp EXCEPT ![t] = NoAnswer]

\* one caller, every input
Next ==
    \/ CallForward(MainThread, FilePaths, Questions)
    \/ CallForwardInitialExamMode(MainThread, FilePaths, Questions)
    \/ ConvertReturns(MainThread, Results)
    \/ ConvertRaises(MainThread)
    \/ Dispatch(MainThread)
    \/ ModelReturns(MainThread, Answers)
    \/ ModelRaises(MainThread)
    \/ Leave(MainThread)

Spec == Init /\ [][Next]_vars

(* ----------------- the two entry points on the same input -------------- *)

ForwardThread == 1
ExamThread == 2

PairResults ==
    { [title |-> None, text_content |-> Rep("A", 1)],
      [title |-> Some(FromChars(<<"T">>)),
       text_content |-> Concat(Rep("A", text_limit - 1), Rep("B", 2))] }

\* forward is called on any input, forward_initial_exam_mode on the input the
\* running call of forward was given
NextPair ==
    \/ pc[ExamThread] = "idle" /\ CallForward(ForwardThread, FilePaths, Questions)
    \/ /\ pc[ForwardThread] # "idle"
       /\ CallForwardInitialExamMode(ExamThread, {file_path[ForwardThread]},
                                     {question[ForwardThread]})
    \/ \E t \in {ForwardThread, ExamThread} :
          \/ ConvertReturns(t, PairResults)
          \/ ConvertRaises(t)
          \/ Dispatch(t)
          \/ ModelReturns(t, Answers)
          \/ ModelRaises(t)
    \/ Leave(ExamThread)
    \/ pc[ExamThread] = "idle" /\ Leave(ForwardThread)

SpecPair == Init /\ [][NextPair]_vars

(* ------------------------- calls from several threads ------------------ *)

ConcPaths ==
    { Concat(FromChars(<<"a">>), DotPng),
      Concat(FromChars(<<"a">>), FromChars(<<".", "p", "d", "f">>)) }

ConcQuestions == { None, Some(FromChars(<<"Q", "?">>)) }

ConcAnswers == { FromChars(<<"o", "k">>) }

NextConc ==
    \E t \in Threads :
        \/ CallForward(t, ConcPaths, ConcQuestions)
        \/ CallForwardInitialExamMode(t, ConcPaths, ConcQuestions)
        \/ ConvertReturns(t, PairResults)
        \/ ConvertRaises(t)
        \/ Dispatch(t)
        \/ ModelReturns(t, ConcAnswers)
        \/ ModelRaises(t)
        \/ Leave(t)

SpecConc == Init /\ [][NextConc]_vars

(* ------------------------ vocabulary of the claims --------------------- *)

\* the path ends in .png or .jpg
EndsInPngOrJpg(fp) == EndsWith(fp, DotPng) \/ EndsWith(fp, DotJpg)

\* the path ends in .jpeg or .gif
EndsInJpegOrGif(fp) ==
    \/ EndsWith(fp, FromChars(<<".", "j", "p", "e", "g">>))
    \/ EndsWith(fp, FromChars(<<".", "g", "i", "f">>))

\* the path has .zip somewhere in it
HasDotZip(fp) == \E i \in 0..StrLen(fp) : EndsWith(Take(fp, i), DotZip)

\* the call of thread t has ended
Ended(t) == pc[t] = "done"

\* the call of thread t is past the checks that follow the conversion
PastChecks(t) == pc[t] \in {"model", "done"} /\ conv[t].status = "ok"

Failed(t, e) == Ended(t) /\ outcome[t] = [kind |-> "raise", err |-> e, text |-> <<>>]

Returned(t, s) == Ended(t) /\ outcome[t] = [kind |-> "return", err |-> "", text |-> s]

\* p is a beginning of s
IsPrefixOf(p, s) ==
    \/ p = <<>>
    \/ /\ Len(p) <= Len(s)
       /\ \A i \in 1..(Len(p) - 1) : p[i] = s[i]
       /\ p[Len(p)].c = s[Len(p)].c
       /\ p[Len(p)].n <= s[Len(p)].n

\* the text that follows the heading, the title and the blank line in content
FilePart(content, r) == Drop(content, 1 + StrLen(str(r.title)) + 1)

\* content is a heading, the title of r, a blank line and then the first
\* min(text_limit, len) characters of the text of r, and nothing else
CarriesFile(content, r) ==
    /\ Take(Drop(content, 1), StrLen(str(r.title))) = str(r.title)
    /\ Take(Drop(content, 1 + StrLen(str(r.title))), 1) = Lit("\n\n")
    /\ IsPrefixOf(FilePart(content, r), r.text_content)
    /\ StrLen(FilePart(content, r)) = Min(text_limit, StrLen(r.text_content))

\* content ends with the question q, which is not empty
CarriesQuestion(content, q) == Truthy(q) /\ EndsWith(content, q.val)

(* ------------------------------- claims -------------------------------- *)

C2_ZipAlwaysReturnsText ==
    \A t \in Threads :
        (Ended(t) /\ conv[t].status = "ok" /\ HasDotZip(file_path[t]))
            => /\ Returned(t, conv[t].val.text_content)
               /\ model_calls[t] = <<>>

\* C2 (amended): on a path containing .zip the model is never called, and when
\* the path does not end in .png or .jpg and the conversion succeeded the call
\* returns exactly the converted text_content, question or not.
C2_ZipReturnsText ==
    \A t \in Threads :
        HasDotZip(file_path[t])
            => /\ model_calls[t] = <<>>
               /\ pc[t] # "model"
               /\ (Ended(t) /\ conv[t].status = "ok" /\ ~EndsInPngOrJpg(file_path[t]))
                     => Returned(t, conv[t].val.text_content)

\* an archive path with a question and a text longer than the limit came back whole
C2_Witness ==
    \E t \in Threads :
        /\ HasDotZip(file_path[t]) /\ ~EndsWith(file_path[t], DotZip)
        /\ Truthy(question[t])
        /\ StrLen(conv[t].val.text_content) > text_limit
        /\ Returned(t, conv[t].val.text_content)

\* C3 (as claimed): a call without a question whose conversion succeeded
\* returns the converted text_content and never calls the model.
C3_NoQuestionAlwaysReturnsText ==
    \A t \in Threads :
        (Ended(t) /\ conv[t].status = "ok" /\ ~Truthy(question[t]))
            => /\ Returned(t, conv[t].val.text_content)
               /\ model_calls[t] = <<>>

\* C3 (amended): without a question (None or "") the model is never called,
\* and when the path does not end in .png or .jpg and the conversion succeeded
\* the call returns exactly the converted text_content, however long.
C3_NoQuestionReturnsText ==
    \A t \in Threads :
        (pc[t] # "idle" /\ ~Truthy(question[t]))
            => /\ model_calls[t] = <<>>
               /\ pc[t] # "model"
               /\ (Ended(t) /\ conv[t].status = "ok" /\ ~EndsInPngOrJpg(file_path[t]))
                     => Returned(t, conv[t].val.text_content)

\* an empty question on a plain path: a text longer than the limit came back whole
C3_Witness ==
    \E t \in Threads :
        /\ question[t] = Some(<<>>)
        /\ ~HasDotZip(file_path[t])
        /\ StrLen(conv[t].val.text_content) = text_limit + MaxExcess
        /\ Returned(t, conv[t].val.text_content)

\* C4: with a non-empty question, a path that is neither image nor archive and
\* a successful conversion, the model is called with messages one of which
\* holds the title followed by exactly the first min(text_limit, len)
\* characters of text_content.
C4_PromptCarriesPrefix ==
    \A t \in Threads :
        ( /\ PastChecks(t)
          /\ Truthy(question[t])
          /\ ~EndsInPngOrJpg(file_path[t])
          /\ ~HasDotZip(file_path[t]) )
            => /\ Len(model_calls[t]) = 1
               /\ \E i \in 1..Len(model_calls[t][1]) :
                     CarriesFile(model_calls[t][1][i].content, conv[t].val)

\* a text that changes character across the limit was cut at the limit
C4_Witness ==
    \E t \in Threads :
        /\ pc[t] = "model"
        /\ conv[t].val.text_content = Concat(Rep("A", text_limit - 1), Rep("B", 2))
        /\ \E i \in 1..Len(model_calls[t][1]) :
              FilePart(model_calls[t][1][i].content, conv[t].val)
                  = Concat(Rep("A", text_limit - 1), Rep("B", 1))

\* C5: one call makes at most one conversion call and at most one model call;
\* a failure of either ends the call at once with that failure, with no
\* further call and no string result.
C5_NoRetryNoFallback ==
    \A t \in Threads :
        /\ Len(convert_calls[t]) <= 1
        /\ Len(model_calls[t]) <= 1
        /\ conv[t].status = "error"
              => Failed(t, ConversionError) /\ model_calls[t] = <<>>
        /\ resp[t].status = "error"
              => Failed(t, ModelCallError) /\ Len(model_calls[t]) = 1
        /\ outcome[t].kind = "raise" => outcome[t].text = <<>>
        /\ outcome[t].kind = "return" => outcome[t].err = ""

\* a call ended by the failure of its one model call
C5_Witness ==
    \E t \in Threads :
        /\ resp[t].status = "error"
        /\ Failed(t, ModelCallError)
        /\ Len(convert_calls[t]) = 1 /\ Len(model_calls[t]) = 1

\* the model's answer, once given, is the result of the call
ReturnsAnswer(t) == resp[t].status = "ok" => Returned(t, resp[t].val)

\* C7 (as claimed): the prompt has two (initial-exam) or three (standard)
\* messages; the SYSTEM message carries title and truncated text, a USER
\* message the question, in standard mode followed by a USER message with the
\* headings instruction; the model's string is returned as it is.
C7_SystemCarriesFile ==
    \A t \in Threads :
        (PastChecks(t) /\ model_calls[t] # <<>>)
            => LET ms == model_calls[t][1]
               IN  /\ Len(ms) = IF mode[t] = "forward" THEN 3 ELSE 2
                   /\ ms[1].role = SYSTEM
                   /\ CarriesFile(ms[1].content, conv[t].val)
                   /\ ms[2].role = USER
                   /\ CarriesQuestion(ms[2].content, question[t])
                   /\ mode[t] = "forward" => ms[3].role = USER
                   /\ ReturnsAnswer(t)

CaptionInstruction ==
    Lit("You will have to write a short caption for this file, then answer this question:")

HeadingsInstruction ==
    Lit("Now answer the question below. Use these three headings: '1. Short answer', '2. Extremely detailed answer', '3. Additional Context on the document and question asked'.")

\* C7 (amended): in initial-exam mode the prompt is <<SYSTEM: title and
\* truncated text, USER: the question>>; in standard mode it is <<SYSTEM: a
\* caption instruction ending with the question, USER: title and truncated
\* text, USER: the headings instruction followed by the question>>; the
\* model's string is returned as it is.
C7_PromptShape ==
    \A t \in Threads :
        (PastChecks(t) /\ model_calls[t] # <<>>)
            => LET ms == model_calls[t][1]
               IN  /\ mode[t] = "forward_initial_exam_mode"
                        => /\ Len(ms) = 2
                           /\ ms[1].role = SYSTEM
                           /\ CarriesFile(ms[1].content, conv[t].val)
                           /\ ms[2] = [role |-> USER, content |-> question[t].val]
                   /\ mode[t] = "forward"
                        => /\ Len(ms) = 3
                           /\ ms[1].role = SYSTEM
                           /\ ms[1].content
                                 = Concat(CaptionInstruction, question[t].val)
                           /\ ms[2].role = USER
                           /\ CarriesFile(ms[2].content, conv[t].val)
                           /\ ms[3] = [role |-> USER,
                                       content |-> Concat(HeadingsInstruction, question[t].val)]
                   /\ ReturnsAnswer(t)

\* a standard-mode call came back with the model's answer
C7_Witness ==
    \E t \in Threads :
        /\ mode[t] = "forward"
        /\ Len(model_calls[t]) = 1 /\ Len(model_calls[t][1]) = 3
        /\ resp[t].status = "ok" /\ resp[t].val # <<>>
        /\ Returned(t, resp[t].val)

\* C8: the conversion call is made first and on every input, image and
\* archive paths included; the model is called only after the conversion of
\* the same call has returned, never after it failed; the image error comes
\* after the conversion.
C8_ConvertFirst ==
    \A t \in Threads :
        /\ pc[t] # "idle" => convert_calls[t] = <<file_path[t]>>
        /\ pc[t] = "convert" => (conv[t].status = "none" /\ model_calls[t] = <<>>)
        /\ model_calls[t] # <<>> => conv[t].status = "ok"
        /\ Failed(t, ImageError) => conv[t].status = "ok"

\* an image path was converted before it was rejected
C8_Witness ==
    \E t \in Threads :
        /\ EndsWith(file_path[t], DotPng)
        /\ Failed(t, ImageError)
        /\ convert_calls[t] = <<file_path[t]>>
        /\ conv[t].status = "ok"

Decision(t) ==
    IF model_calls[t] # <<>> THEN [kind |-> "model", err |-> "", text |-> <<>>]
    ELSE outcome[t]

Decided(t) == pc[t] \in {"model", "done"}

\* C6: on the same file_path and question and the same conversion outcome,
\* forward and forward_initial_exam_mode make the same conversion call, fail
\* with the same error, return the same text_content when the model is not
\* called, and agree on whether the model is called.
C6_EntryPointsAgree ==
    ( /\ pc[ForwardThread] # "idle" /\ pc[ExamThread] # "idle"
      /\ mode[ForwardThread] = "forward"
      /\ mode[ExamThread] = "forward_initial_exam_mode"
      /\ file_path[ForwardThread] = file_path[ExamThread]
      /\ question[ForwardThread] = question[ExamThread] )
        => /\ convert_calls[ForwardThread] = convert_calls[ExamThread]
           /\ ( /\ Decided(ForwardThread) /\ Decided(ExamThread)
                /\ conv[ForwardThread] = conv[ExamThread] )
                 => Decision(ForwardThread) = Decision(ExamThread)

\* both entry points called the model on the same input, with different messages
C6_Witness ==
    /\ pc[ForwardThread] = "model" /\ pc[ExamThread] = "model"
    /\ mode[ForwardThread] = "forward"
    /\ mode[ExamThread] = "forward_initial_exam_mode"
    /\ file_path[ForwardThread] = file_path[ExamThread]
    /\ question[ForwardThread] = question[ExamThread]
    /\ conv[ForwardThread] = conv[ExamThread]
    /\ Len(model_calls[ForwardThread][1]) = 3
    /\ Len(model_calls[ExamThread][1]) = 2

\* C10: under every interleaving, the result a call reads is the one its own
\* conversion returned, and its outcome and the messages it sends are the ones
\* the method computes from its own file_path, question and conversion result
\* (and, when the model is called, the model's answer to this call).
C10_CallsDoNotInterfere ==
    \A t \in Threads :
        /\ pc[t] = "dispatch" => result[t] = conv[t].val
        /\ conv[t].status = "error" => Failed(t, ConversionError)
        /\ PastChecks(t)
              => LET b == Body(mode[t], file_path[t], question[t], conv[t].val)
                 IN  IF b.kind = "model"
                     THEN /\ model_calls[t] = <<b.messages>>
                          /\ resp[t].status = "none" => pc[t] = "model"
                          /\ resp[t].status = "ok" => Returned(t, resp[t].val)
                          /\ resp[t].status = "error" => Failed(t, ModelCallError)
                     ELSE /\ model_calls[t] = <<>>
                          /\ Ended(t)
                          /\ outcome[t] = [kind |-> b.kind, err |-> b.err, text |-> b.text]

\* two calls were in flight with different conversion results, and each
\* returned its own text
C10_Witness ==
    \E t \in Threads, u \in Threads :
        /\ t # u
        /\ conv[t].status = "ok" /\ conv[u].status = "ok"
        /\ conv[t].val # conv[u].val
        /\ Returned(t, conv[t].val.text_content)
        /\ Returned(u, conv[u].val.text_content)

====
